---- MODULE Spec2Model ----
\* Transform tree of axisviz (src/src/main.rs): the node store, dirty
\* propagation, world update, the name index and the conversion of a file
\* tree into a store.
\*
\* Handles are the zero-based indices of the Vec<TNode>; the node with handle
\* h is element h + 1 of the sequence `nodes`.  An Isometry3d is modelled as a
\* word over generators (a sequence of integers): IDENTITY is the empty word
\* and the product is concatenation.  Words form the free monoid, so a
\* product is equal to another only if the isometry group's laws
\* (associativity, identity) force it.
EXTENDS Integers, Sequences, FiniteSets, TLC

\* ------------------------------------------------------------------ bounds
MaxNodes == 3        \* the store holds at most this many nodes
MaxFileNodes == 3    \* a file tree lists at most this many nodes
MaxHashLen == 4      \* name_hash is applied to stores of at most this size
MaxLoopSteps == 8    \* a while loop is followed for at most this many iterations

Names == {"a"}
FileNames == {"a", "b", "c"}
Gens == {1, 2}

\* ------------------------------------------------------------ Isometry3d
IDENTITY == << >>

Mul(a, b) == a \o b

\* The local transforms add_node is called with.
Locals == {IDENTITY} \cup {<<g>> : g \in Gens}

\* ------------------------------------------------------------------ TNode
\* Option<NodeId>::None.
None == 0 - 1

TNode(name, parent, children, local, world, dirty) ==
    [name |-> name, parent |-> parent, children |-> children,
     local |-> local, world |-> world, dirty |-> dirty]

At(ns, h) == ns[h + 1]

Handles(ns) == 0 .. (Len(ns) - 1)

Put(ns, h, field, value) ==
    [ns EXCEPT ![h + 1] = [@ EXCEPT ![field] = value]]

\* Vec::retain(|&c| c != id)
RECURSIVE Retain(_, _)
Retain(s, id) ==
    IF s = << >> THEN << >>
    ELSE IF Head(s) = id THEN Retain(Tail(s), id)
         ELSE <<Head(s)>> \o Retain(Tail(s), id)

\* ---------------------------------------------------------------- add_node
AddNodeAccess(ns, parent) ==
    LET id == Len(ns)
    IN  IF parent # None /\ parent < id THEN {parent, id} ELSE {id}

\* add_node returning a one-based handle.
AddNodeIdOneBased(ns) == Len(ns) + 1

\* The handle add_node returns: the length of the Vec before the push.
AddNodeId(ns) == Len(ns)

\* add_node composing the child's local before the parent's world.
AddNodeChildFirst(ns, name, local, parent) ==
    LET id == Len(ns)
        pushed == Append(ns, TNode(name, None, << >>, local, IDENTITY, TRUE))
    IN  IF parent # None /\ parent < id
        THEN LET n1 == Put(pushed, parent, "children",
                           Append(At(pushed, parent).children, id))
                 n2 == Put(n1, id, "parent", parent)
                 n3 == Put(n2, id, "world",
                           Mul(At(n2, id).local, At(n2, parent).world))
             IN  Put(n3, id, "dirty", FALSE)
        ELSE LET n1 == Put(pushed, id, "world", At(pushed, id).local)
             IN  Put(n1, id, "dirty", FALSE)

\* add_node accepting p <= id instead of p < id.
AddNodeLeq(ns, name, local, parent) ==
    LET id == Len(ns)
        pushed == Append(ns, TNode(name, None, << >>, local, IDENTITY, TRUE))
    IN  IF parent # None /\ parent <= id
        THEN LET n1 == Put(pushed, parent, "children",
                           Append(At(pushed, parent).children, id))
                 n2 == Put(n1, id, "parent", parent)
                 n3 == Put(n2, id, "world",
                           Mul(At(n2, parent).world, At(n2, id).local))
             IN  Put(n3, id, "dirty", FALSE)
        ELSE LET n1 == Put(pushed, id, "world", At(pushed, id).local)
             IN  Put(n1, id, "dirty", FALSE)

AddNode(ns, name, local, parent) ==
    LET id == Len(ns)
        pushed == Append(ns, TNode(name, None, << >>, local, IDENTITY, TRUE))
    IN  IF parent # None /\ parent < id
        THEN LET n1 == Put(pushed, parent, "children",
                           Append(At(pushed, parent).children, id))
                 n2 == Put(n1, id, "parent", parent)
                 n3 == Put(n2, id, "world",
                           Mul(At(n2, parent).world, At(n2, id).local))
             IN  Put(n3, id, "dirty", FALSE)
        ELSE LET n1 == Put(pushed, id, "world", At(pushed, id).local)
             IN  Put(n1, id, "dirty", FALSE)

\* -------------------------------------------------------------- mark_dirty
\* The while loop of mark_dirty on the VecDeque q, followed for at most
\* `fuel` iterations.  Besides the store it gives the handles whose flag it
\* switched (marks) and whose children it enqueued (expands), in order, and
\* whether the queue ran empty (done).
MarkDirtyResult(ns, marks, expands, done) ==
    [nodes |-> ns, marks |-> marks, expands |-> expands, done |-> done]

\* mark_dirty enqueueing the children of every node it pops.
RECURSIVE MarkDirtyRunExpandsAll(_, _, _, _, _)
MarkDirtyRunExpandsAll(ns, q, marks, expands, fuel) ==
    IF q = << >> THEN MarkDirtyResult(ns, marks, expands, TRUE)
    ELSE IF fuel = 0 THEN MarkDirtyResult(ns, marks, expands, FALSE)
    ELSE LET n == Head(q)
         IN  IF ~At(ns, n).dirty
             THEN MarkDirtyRunExpandsAll(Put(ns, n, "dirty", TRUE),
                                         Tail(q) \o At(ns, n).children,
                                         Append(marks, n), Append(expands, n),
                                         fuel - 1)
             ELSE MarkDirtyRunExpandsAll(ns, Tail(q) \o At(ns, n).children,
                                         marks, Append(expands, n), fuel - 1)

RECURSIVE MarkDirtyRun(_, _, _, _, _)
MarkDirtyRun(ns, q, marks, expands, fuel) ==
    IF q = << >> THEN MarkDirtyResult(ns, marks, expands, TRUE)
    ELSE IF fuel = 0 THEN MarkDirtyResult(ns, marks, expands, FALSE)
    ELSE LET n == Head(q)
         IN  IF ~At(ns, n).dirty
             THEN MarkDirtyRun(Put(ns, n, "dirty", TRUE),
                               Tail(q) \o At(ns, n).children,
                               Append(marks, n), Append(expands, n), fuel - 1)
             ELSE MarkDirtyRun(ns, Tail(q), marks, expands, fuel - 1)

MarkDirtyLoop(ns, q) == MarkDirtyRun(ns, q, << >>, << >>, MaxLoopSteps).nodes

\* One call of mark_dirty(id) with its trace.
MarkDirtyTrace(ns, id) == MarkDirtyRun(ns, <<id>>, << >>, << >>, MaxLoopSteps)

MarkDirty(ns, id) == MarkDirtyLoop(ns, <<id>>)

\* -------------------------------------------------------------- set_parent
\* set_parent that does not remove id from its old parent's children.
SetParentNoDetach(ns, id, parent) ==
    LET n1 == Put(ns, id, "parent", None)
        n2 == IF parent # None
              THEN Put(Put(n1, parent, "children",
                           Append(At(n1, parent).children, id)),
                       id, "parent", parent)
              ELSE n1
    IN  MarkDirty(n2, id)

\* set_parent that starts the dirty walk at the new parent.
SetParentMarksParent(ns, id, parent) ==
    LET old == At(ns, id).parent
        n1 == IF old # None
              THEN Put(Put(ns, id, "parent", None), old, "children",
                       Retain(At(ns, old).children, id))
              ELSE ns
        n2 == IF parent # None
              THEN Put(Put(n1, parent, "children",
                           Append(At(n1, parent).children, id)),
                       id, "parent", parent)
              ELSE n1
    IN  MarkDirty(n2, IF parent # None THEN parent ELSE id)

SetParent(ns, id, parent) ==
    LET old == At(ns, id).parent
        n1 == IF old # None
              THEN Put(Put(ns, id, "parent", None), old, "children",
                       Retain(At(ns, old).children, id))
              ELSE ns
        n2 == IF parent # None
              THEN Put(Put(n1, parent, "children",
                           Append(At(n1, parent).children, id)),
                       id, "parent", parent)
              ELSE n1
    IN  MarkDirty(n2, id)

\* ------------------------------------------------------------ update_world
\* update_world starting from every node instead of the roots.
RootsAll(ns) == [k \in 1 .. Len(ns) |-> k - 1]

RECURSIVE RootsFrom(_, _)
RootsFrom(ns, i) ==
    IF i >= Len(ns) THEN << >>
    ELSE IF At(ns, i).parent = None
         THEN <<i>> \o RootsFrom(ns, i + 1)
         ELSE RootsFrom(ns, i + 1)

Roots(ns) == RootsFrom(ns, 0)

\* The frames pushed for the children of a visited node, in push order.
Frames(children, world) ==
    [k \in 1 .. Len(children) |-> <<children[k], world>>]

\* update_world that descends only below the nodes it recomputed.
RECURSIVE UpdateWorldLoopSkipClean(_, _)
UpdateWorldLoopSkipClean(ns, stack) ==
    IF stack = << >> THEN ns
    ELSE LET top == stack[Len(stack)]
             rest == SubSeq(stack, 1, Len(stack) - 1)
             id == top[1]
             parent_world == top[2]
         IN  IF At(ns, id).dirty
             THEN LET n1 == Put(Put(ns, id, "world",
                                    Mul(parent_world, At(ns, id).local)),
                                id, "dirty", FALSE)
                  IN  UpdateWorldLoopSkipClean(
                          n1, rest \o Frames(At(n1, id).children, At(n1, id).world))
             ELSE UpdateWorldLoopSkipClean(ns, rest)

\* The while loop of update_world on the stack, followed for at most
\* `fuel` iterations.  Besides the store it gives the visits in pop order
\* (the node, the transform carried to it, its world after the visit) and
\* whether the stack ran empty (done).
UpdateWorldResult(ns, visits, done) ==
    [nodes |-> ns, visits |-> visits, done |-> done]

Visit(id, carried, world) == [id |-> id, carried |-> carried, world |-> world]

\* update_world handing the children the transform the node was handed.
RECURSIVE UpdateWorldRunCarriesOld(_, _, _, _)
UpdateWorldRunCarriesOld(ns, stack, visits, fuel) ==
    IF stack = << >> THEN UpdateWorldResult(ns, visits, TRUE)
    ELSE IF fuel = 0 THEN UpdateWorldResult(ns, visits, FALSE)
    ELSE LET top == stack[Len(stack)]
             rest == SubSeq(stack, 1, Len(stack) - 1)
             id == top[1]
             parent_world == top[2]
             n1 == IF At(ns, id).dirty
                   THEN Put(Put(ns, id, "world",
                                Mul(parent_world, At(ns, id).local)),
                            id, "dirty", FALSE)
                   ELSE ns
             world == At(n1, id).world
         IN  UpdateWorldRunCarriesOld(
                 n1, rest \o Frames(At(n1, id).children, parent_world),
                 Append(visits, Visit(id, parent_world, world)), fuel - 1)

\* update_world recomputing every node it visits, dirty or not.
RECURSIVE UpdateWorldRunAlways(_, _, _, _)
UpdateWorldRunAlways(ns, stack, visits, fuel) ==
    IF stack = << >> THEN UpdateWorldResult(ns, visits, TRUE)
    ELSE IF fuel = 0 THEN UpdateWorldResult(ns, visits, FALSE)
    ELSE LET top == stack[Len(stack)]
             rest == SubSeq(stack, 1, Len(stack) - 1)
             id == top[1]
             parent_world == top[2]
             n1 == Put(Put(ns, id, "world",
                           Mul(parent_world, At(ns, id).local)),
                       id, "dirty", FALSE)
             world == At(n1, id).world
         IN  UpdateWorldRunAlways(
                 n1, rest \o Frames(At(n1, id).children, world),
                 Append(visits, Visit(id, parent_world, world)), fuel - 1)

RECURSIVE UpdateWorldRun(_, _, _, _)
UpdateWorldRun(ns, stack, visits, fuel) ==
    IF stack = << >> THEN UpdateWorldResult(ns, visits, TRUE)
    ELSE IF fuel = 0 THEN UpdateWorldResult(ns, visits, FALSE)
    ELSE LET top == stack[Len(stack)]
             rest == SubSeq(stack, 1, Len(stack) - 1)
             id == top[1]
             parent_world == top[2]
             n1 == IF At(ns, id).dirty
                   THEN Put(Put(ns, id, "world",
                                Mul(parent_world, At(ns, id).local)),
                            id, "dirty", FALSE)
                   ELSE ns
             world == At(n1, id).world
         IN  UpdateWorldRun(n1, rest \o Frames(At(n1, id).children, world),
                            Append(visits, Visit(id, parent_world, world)),
                            fuel - 1)

UpdateWorldLoop(ns, stack) ==
    UpdateWorldRun(ns, stack, << >>, MaxLoopSteps).nodes

\* One call of update_world with its trace.
UpdateWorldTrace(ns) ==
    UpdateWorldRun(ns, Frames(Roots(ns), IDENTITY), << >>, MaxLoopSteps)

UpdateWorld(ns) == UpdateWorldLoop(ns, Frames(Roots(ns), IDENTITY))

\* --------------------------------------------------------------- name_hash
\* The result is [ok, map, name]: map is the HashMap (a function from the
\* inserted names to handles), name the String of Err(Duplicate(name)).
EmptyMap == [x \in {} |-> 0]

RECURSIVE NameHashLoop(_, _, _)
NameHashLoop(ns, id, map) ==
    IF id >= Len(ns) THEN [ok |-> TRUE, map |-> map, name |-> ""]
    ELSE LET name == At(ns, id).name
         IN  IF name \in DOMAIN map
             THEN [ok |-> FALSE, map |-> EmptyMap, name |-> name]
             ELSE NameHashLoop(ns, id + 1, (name :> id) @@ map)

\* name_hash whose loop skips handle 0.
NameHashSkipFirst(ns) == NameHashLoop(ns, 1, EmptyMap)

NameHash(ns) == NameHashLoop(ns, 0, EmptyMap)

\* ------------------------------------------------- file representation
\* Option<String>::None of FileNode.parent.
NoName == "<none>"

FileNode(name, parent, t, r) ==
    [name |-> name, parent |-> parent, t |-> t, r |-> r]

\* The values of FileNode.t and FileNode.r: 0 is the zero vector, 1 a
\* non-zero one.  Generator 1 is the translation, generator 2 the rotation.
FileVecs == {0, 1}

Translation(t) == IF t = 0 THEN IDENTITY ELSE <<1>>

Rotation(r) == IF r = 0 THEN IDENTITY ELSE <<2>>

\* impl From<&FileNode> for Isometry3d: Isometry3d::new(translation, rotation)
IsometryFrom(node) == Mul(Translation(node.t), Rotation(node.r))

\* --------------------------------------- TryFrom<FileTransformTree>
RECURSIVE AddAll(_, _, _)
AddAll(res, fnodes, i) ==
    IF i > Len(fnodes) THEN res
    ELSE AddAll(AddNode(res, fnodes[i].name, IsometryFrom(fnodes[i]), None),
                fnodes, i + 1)

\* The second loop of try_from calling set_parent(parent, child).
RECURSIVE LinkAllSwapped(_, _, _, _)
LinkAllSwapped(res, fnodes, i, name_map) ==
    IF i > Len(fnodes) THEN [panic |-> FALSE, nodes |-> res]
    ELSE LET node == fnodes[i]
         IN  IF node.parent = NoName
             THEN LinkAllSwapped(res, fnodes, i + 1, name_map)
             ELSE IF node.name \notin DOMAIN name_map
                     \/ node.parent \notin DOMAIN name_map
                  THEN [panic |-> TRUE, nodes |-> res]
                  ELSE LinkAllSwapped(SetParent(res, name_map[node.parent],
                                                name_map[node.name]),
                                      fnodes, i + 1, name_map)

\* The second loop of try_from.  name_map[&p] is HashMap's Index, which
\* panics when the key is absent.
RECURSIVE LinkAll(_, _, _, _)
LinkAll(res, fnodes, i, name_map) ==
    IF i > Len(fnodes) THEN [panic |-> FALSE, nodes |-> res]
    ELSE LET node == fnodes[i]
         IN  IF node.parent = NoName
             THEN LinkAll(res, fnodes, i + 1, name_map)
             ELSE IF node.name \notin DOMAIN name_map
                     \/ node.parent \notin DOMAIN name_map
                  THEN [panic |-> TRUE, nodes |-> res]
                  ELSE LinkAll(SetParent(res, name_map[node.name],
                                         name_map[node.parent]),
                               fnodes, i + 1, name_map)

\* The outcome of try_from: tag is "Ok" (nodes is the returned store),
\* "Duplicate" (Err(Duplicate(name))), "ParentMissing"
\* (Err(ParentMissing(name))) or "Panic" (the thread panics; nothing is
\* returned).
Outcome(tag, name, ns) == [tag |-> tag, name |-> name, nodes |-> ns]

\* try_from that links while it creates: one pass of add_node with the
\* parent's handle when the parent is already in the store, no second pass.
RECURSIVE AddAllLinked(_, _, _)
AddAllLinked(res, fnodes, i) ==
    IF i > Len(fnodes) THEN res
    ELSE LET known == {h \in Handles(res) : At(res, h).name = fnodes[i].parent}
             parent == IF known = {} THEN None ELSE CHOOSE h \in known : TRUE
         IN  AddAllLinked(AddNode(res, fnodes[i].name, IsometryFrom(fnodes[i]),
                                  parent),
                          fnodes, i + 1)

TryFromOnePass(ftree) ==
    LET res == AddAllLinked(<< >>, ftree, 1)
        hashed == NameHash(res)
    IN  IF ~hashed.ok THEN Outcome("Duplicate", hashed.name, << >>)
        ELSE Outcome("Ok", "", UpdateWorld(res))

TryFrom(ftree) ==
    LET res == AddAll(<< >>, ftree, 1)
        hashed == NameHash(res)
    IN  IF ~hashed.ok THEN Outcome("Duplicate", hashed.name, << >>)
        ELSE LET linked == LinkAll(res, ftree, 1, hashed.map)
             IN  IF linked.panic THEN Outcome("Panic", "", << >>)
                 ELSE Outcome("Ok", "", UpdateWorld(linked.nodes))

\* ------------------------------------------------- structure of a store
\* h climbs to a root in at most k parent steps.
RECURSIVE ReachesRoot(_, _, _)
ReachesRoot(ns, h, k) ==
    IF At(ns, h).parent = None THEN TRUE
    ELSE IF k = 0 THEN FALSE
         ELSE ReachesRoot(ns, At(ns, h).parent, k - 1)

\* The parent relation is a forest.
Acyclic(ns) == \A h \in Handles(ns) : ReachesRoot(ns, h, Len(ns))

\* a is reached from d by one or more parent steps (at most k).
RECURSIVE IsAncestor(_, _, _, _)
IsAncestor(ns, a, d, k) ==
    IF k = 0 \/ At(ns, d).parent = None THEN FALSE
    ELSE IF At(ns, d).parent = a THEN TRUE
         ELSE IsAncestor(ns, a, At(ns, d).parent, k - 1)

\* The transitive descendants of h.
Descendants(ns, h) == {d \in Handles(ns) : IsAncestor(ns, h, d, Len(ns))}

\* The composition of the local transforms from the root of h down to h
\* (of an acyclic store).
RECURSIVE ChainWorld(_, _)
ChainWorld(ns, h) ==
    IF At(ns, h).parent = None THEN At(ns, h).local
    ELSE Mul(ChainWorld(ns, At(ns, h).parent), At(ns, h).local)

\* ------------------------------------------------------------------ state
VARIABLES
    nodes,    \* TransformTree.nodes
    last,     \* the call that produced this state: [op, id, parent, ret]
    ftree,    \* the FileTransformTree handed to try_from (SpecConv)
    result    \* what the last try_from or name_hash call gave back

vars == <<nodes, last, ftree, result>>

Call(op, id, parent, ret) ==
    [op |-> op, id |-> id, parent |-> parent, ret |-> ret]

NoResult == [tag |-> "none"]

OptHandles(ns) == {None} \cup Handles(ns)

Init ==
    /\ nodes = << >>
    /\ last = Call("new", None, None, None)
    /\ ftree = << >>
    /\ result = NoResult

\* add_node(name, local, parent); the parent argument is any Option<usize>
\* up to MaxNodes, so handles that do not exist (yet) are passed too.
AddNodeCall ==
    /\ Len(nodes) < MaxNodes
    /\ \E name \in Names, local \in Locals, parent \in {None} \cup (0 .. MaxNodes) :
          /\ nodes' = AddNode(nodes, name, local, parent)
          /\ last' = Call("add_node", None, parent, AddNodeId(nodes))
    /\ UNCHANGED <<ftree, result>>

\* set_parent(id, parent) on existing handles, cycles included.
SetParentCall ==
    /\ \E id \in Handles(nodes), parent \in OptHandles(nodes) :
          /\ nodes' = SetParent(nodes, id, parent)
          /\ last' = Call("set_parent", id, parent, None)
    /\ UNCHANGED <<ftree, result>>

\* set_parent(id, parent) by a caller that keeps the contract of 4.2: the
\* call introduces no cycle.
SetParentForestCall ==
    /\ \E id \in Handles(nodes), parent \in OptHandles(nodes) :
          /\ Acyclic(SetParent(nodes, id, parent))
          /\ nodes' = SetParent(nodes, id, parent)
          /\ last' = Call("set_parent", id, parent, None)
    /\ UNCHANGED <<ftree, result>>

MarkDirtyCall ==
    /\ \E id \in Handles(nodes) :
          /\ nodes' = MarkDirty(nodes, id)
          /\ last' = Call("mark_dirty", id, None, None)
    /\ UNCHANGED <<ftree, result>>

UpdateWorldCall ==
    /\ nodes # << >>
    /\ nodes' = UpdateWorld(nodes)
    /\ last' = Call("update_world", None, None, None)
    /\ UNCHANGED <<ftree, result>>

\* Every caller: add_node, set_parent, mark_dirty, update_world.
Next == AddNodeCall \/ SetParentCall \/ MarkDirtyCall \/ UpdateWorldCall

Spec == Init /\ [][Next]_vars

\* Callers that use add_node, set_parent and update_world only and never
\* create a cycle.
NextForest == AddNodeCall \/ SetParentForestCall \/ UpdateWorldCall

SpecForest == Init /\ [][NextForest]_vars

\* ------------------------------------------------- conversion of a file
FileNodes ==
    {FileNode(name, parent, t, r) :
        name \in FileNames, parent \in FileNames \cup {NoName},
        t \in FileVecs, r \in FileVecs}

RECURSIVE SeqsUpTo(_, _)
SeqsUpTo(S, n) ==
    IF n = 0 THEN {<< >>}
    ELSE LET shorter == SeqsUpTo(S, n - 1)
         IN  shorter \cup {Append(s, x) : s \in {q \in shorter : Len(q) = n - 1}, x \in S}

InitConv ==
    /\ ftree \in SeqsUpTo(FileNodes, MaxFileNodes)
    /\ nodes = << >>
    /\ last = Call("new", None, None, None)
    /\ result = NoResult

TryFromCall ==
    /\ last.op = "new"
    /\ result' = TryFrom(ftree)
    /\ nodes' = result'.nodes
    /\ last' = Call("try_from", None, None, None)
    /\ UNCHANGED ftree

NextConv == TryFromCall

SpecConv == InitConv /\ [][NextConv]_vars

\* ---------------------------------------------------- the name index
RECURSIVE StoreOfNames(_, _)
StoreOfNames(names, i) ==
    IF i = 0 THEN << >>
    ELSE AddNode(StoreOfNames(names, i - 1), names[i], IDENTITY, None)

InitHash ==
    /\ \E names \in SeqsUpTo(FileNames, MaxHashLen) :
          nodes = StoreOfNames(names, Len(names))
    /\ last = Call("new", None, None, None)
    /\ ftree = << >>
    /\ result = NoResult

NameHashCall ==
    /\ last.op = "new"
    /\ result' = NameHash(nodes)
    /\ last' = Call("name_hash", None, None, None)
    /\ UNCHANGED <<nodes, ftree>>

NextHash == NameHashCall

SpecHash == InitHash /\ [][NextHash]_vars

\* =================================================================
\* Properties
\* =================================================================
Range(s) == {s[k] : k \in 1 .. Len(s)}

Node(h) == At(nodes, h)

\* C1: in a store built by add_node, set_parent and update_world calls that
\* create no cycle, right after update_world every node's world is the
\* composition of the locals along its chain from the root down to it (and
\* a root's world is its local).
C1_WorldCorrectAfterUpdate ==
    last.op = "update_world" =>
        \A h \in Handles(nodes) : Node(h).world = ChainWorld(nodes, h)

\* C4: right after update_world on an acyclic store (built by add_node,
\* set_parent, mark_dirty and update_world calls) no node is dirty.
C4_NoDirtyAfterUpdate ==
    (last.op = "update_world" /\ Acyclic(nodes)) =>
        \A h \in Handles(nodes) : ~Node(h).dirty

\* C4 witness: update_world has returned on a forest with a chain of three.
C4_Witness ==
    /\ last.op = "update_world"
    /\ Acyclic(nodes)
    /\ \E h \in Handles(nodes) :
          Node(h).parent # None /\ Node(Node(h).parent).parent # None

\* C5: right after set_parent(h, p), h and every transitive descendant of h
\* is dirty (stores built by add_node, set_parent and update_world, no
\* cycle created).
C5_SubtreeDirtyAfterSetParent ==
    last.op = "set_parent" =>
        \A d \in {last.id} \cup Descendants(nodes, last.id) : Node(d).dirty

\* C6: set_parent(h, p) changes the dirty flag of h and of its transitive
\* descendants only, changes no name, local or world, changes no parent
\* field but h's and no children list but those of h's old parent and of p.
C6_SetParentFrame ==
    [][last'.op = "set_parent" =>
          LET h == last'.id
              p == last'.parent
              old == At(nodes, h).parent
              sub == {h} \cup Descendants(nodes', h)
          IN  /\ Len(nodes') = Len(nodes)
              /\ \A x \in Handles(nodes) :
                    /\ At(nodes', x).name = At(nodes, x).name
                    /\ At(nodes', x).local = At(nodes, x).local
                    /\ At(nodes', x).world = At(nodes, x).world
                    /\ x \notin sub => At(nodes', x).dirty = At(nodes, x).dirty
                    /\ x # h => At(nodes', x).parent = At(nodes, x).parent
                    /\ x \notin {old, p} =>
                          At(nodes', x).children = At(nodes, x).children
    ]_vars

\* C6 witness: set_parent(h, p) has moved a node with a child under a new
\* parent that stays clean.
C6_Witness ==
    /\ last.op = "set_parent"
    /\ last.parent # None
    /\ last.parent # last.id
    /\ Descendants(nodes, last.id) # {}
    /\ ~Node(last.parent).dirty

\* C7: after any sequence of add_node, set_parent, mark_dirty and
\* update_world calls, c.parent = p exactly if p.children contains c, and
\* no children list holds a handle twice.
C7_ParentChildrenConsistent ==
    \A p \in Handles(nodes) :
        /\ \A c \in Handles(nodes) :
              (Node(c).parent = p) <=> (c \in Range(Node(p).children))
        /\ Range(Node(p).children) \subseteq Handles(nodes)
        /\ Cardinality(Range(Node(p).children)) = Len(Node(p).children)

\* C7 witness: a node has been made its own parent while another node has
\* two children.
C7_Witness ==
    /\ last.op = "set_parent"
    /\ last.parent = last.id
    /\ \E p \in Handles(nodes) : Len(Node(p).children) = 2

\* C8: add_node(name, local, Some(p)) with p below the node count n returns
\* n, records parent(n) = p, adds n to p.children and sets
\* n.world = p.world * n.local from p's cached world, with n.dirty = false.
C8_AddNodeWithParent ==
    [][(last'.op = "add_node" /\ last'.parent # None /\ last'.parent < Len(nodes)) =>
          LET n == Len(nodes)
              p == last'.parent
          IN  /\ last'.ret = n
              /\ Len(nodes') = n + 1
              /\ At(nodes', n).parent = p
              /\ n \in Range(At(nodes', p).children)
              /\ At(nodes', n).world = At(nodes, p).world \o At(nodes', n).local
              /\ ~At(nodes', n).dirty
    ]_vars

\* C8 witness: a node with a non-identity local has been added under a
\* parent whose cached world is not the identity.
C8_Witness ==
    /\ last.op = "add_node"
    /\ last.parent # None
    /\ last.parent < last.ret
    /\ Node(last.parent).world # << >>
    /\ Node(last.ret).local # << >>
    /\ Node(last.ret).parent = last.parent

\* C9: add_node with no parent argument, or with one that is not below the
\* new node's handle, makes the new node a root with world = local and
\* dirty = false, leaves every existing node as it was and touches no node
\* out of range.
C9_AddNodeAsRoot ==
    [][(last'.op = "add_node" /\ (last'.parent = None \/ last'.parent >= Len(nodes))) =>
          LET n == Len(nodes)
          IN  /\ last'.ret = n
              /\ Len(nodes') = n + 1
              /\ SubSeq(nodes', 1, n) = nodes
              /\ At(nodes', n).parent = None
              /\ At(nodes', n).world = At(nodes', n).local
              /\ ~At(nodes', n).dirty
              /\ AddNodeAccess(nodes, last'.parent) \subseteq Handles(nodes')
    ]_vars

\* C9 witness: add_node was handed its own future handle as the parent
\* while the store already held nodes.
C9_Witness ==
    /\ last.op = "add_node"
    /\ last.parent = last.ret
    /\ last.ret >= 1
    /\ Node(last.ret).parent = None

\* A later node repeats the name of the node with handle j's predecessor:
\* j is a handle whose name an earlier handle already has.
Repeats(j) == \E i \in 0 .. (j - 1) : Node(i).name = Node(j).name

\* C10: name_hash fails exactly if two nodes share a name, then reporting
\* the name of the lowest handle that repeats an earlier node's name;
\* otherwise its mapping has one entry per node, from each node's name to
\* its handle.
C10_NameHash ==
    last.op = "name_hash" =>
        LET rep == {j \in Handles(nodes) : Repeats(j)}
        IN  /\ result.ok <=> rep = {}
            /\ rep # {} =>
                  \E j \in rep : /\ \A k \in rep : j <= k
                                 /\ result.name = Node(j).name
            /\ rep = {} =>
                  /\ DOMAIN result.map = {Node(h).name : h \in Handles(nodes)}
                  /\ Cardinality(DOMAIN result.map) = Len(nodes)
                  /\ \A h \in Handles(nodes) : result.map[Node(h).name] = h

\* C10 witness: name_hash has failed on a store in which two different
\* names repeat.
C10_Witness ==
    /\ last.op = "name_hash"
    /\ ~result.ok
    /\ \E j, k \in Handles(nodes) :
          Repeats(j) /\ Repeats(k) /\ Node(j).name # Node(k).name

\* The names of a file tree are pairwise different.
UniqueNames(ft) ==
    \A i, j \in 1 .. Len(ft) : ft[i].name = ft[j].name => i = j

\* Some file node names a parent that no file node is called.
DanglingParent(ft) ==
    \E i \in 1 .. Len(ft) :
        /\ ft[i].parent # NoName
        /\ \A j \in 1 .. Len(ft) : ft[j].name # ft[i].parent

\* C2: converting a file tree with unique names in which some parent field
\* names an absent node returns Err(ParentMissing) to the caller.
C2_UnknownParentIsReturned ==
    (last.op = "try_from" /\ UniqueNames(ftree) /\ DanglingParent(ftree)) =>
        result.tag = "ParentMissing"

\* C3: whenever conversion succeeds, cyclic parent names included, the
\* returned store has no dirty node.
C3_ConvertedStoreClean ==
    (last.op = "try_from" /\ result.tag = "Ok") =>
        \A h \in Handles(result.nodes) : ~At(result.nodes, h).dirty

\* C11: handles are dense and stable.  Every add_node step returns the
\* node count before it and grows the store by one, no other step changes
\* the count (so the k-th add_node returns k - 1 and the count never
\* decreases), and no step changes the name or local of an existing handle.
C11_HandlesDenseStable ==
    [][/\ Len(nodes') >= Len(nodes)
       /\ \A h \in Handles(nodes) :
             /\ At(nodes', h).name = At(nodes, h).name
             /\ At(nodes', h).local = At(nodes, h).local
       /\ IF last'.op = "add_node"
          THEN last'.ret = Len(nodes) /\ Len(nodes') = Len(nodes) + 1
          ELSE Len(nodes') = Len(nodes)
    ]_vars

\* C11 witness: the third add_node has returned handle 2 in a store whose
\* earlier nodes were re-parented in between.
C11_Witness ==
    /\ last.op = "add_node"
    /\ last.ret = 2
    /\ Len(nodes) = 3
    /\ Node(0).dirty
    /\ Node(1).parent = 0
    /\ Node(0).local # Node(1).local

\* Every parent field of the file tree names a node of the file tree.
Resolvable(ft) ==
    \A i \in 1 .. Len(ft) :
        ft[i].parent = NoName \/ \E j \in 1 .. Len(ft) : ft[j].name = ft[i].parent

\* From file node i the parent names lead to a node without parent in at
\* most k steps (names unique and resolvable).
RECURSIVE FileReachesRoot(_, _, _)
FileReachesRoot(ft, i, k) ==
    IF ft[i].parent = NoName THEN TRUE
    ELSE IF k = 0 THEN FALSE
         ELSE FileReachesRoot(
                  ft, CHOOSE j \in 1 .. Len(ft) : ft[j].name = ft[i].parent, k - 1)

FileAcyclic(ft) == \A i \in 1 .. Len(ft) : FileReachesRoot(ft, i, Len(ft))

WellFormed(ft) == UniqueNames(ft) /\ Resolvable(ft) /\ FileAcyclic(ft)

\* The file trees that list the nodes of ft in another order.
Reorderings(ft) ==
    {[k \in 1 .. Len(ft) |-> ft[f[k]]] : f \in Permutations(1 .. Len(ft))}

\* The name of the parent of h in store ns, NoName for a root.
ParentName(ns, h) ==
    IF At(ns, h).parent = None THEN NoName ELSE At(ns, At(ns, h).parent).name

\* C12: for a file tree with unique names and resolvable, acyclic parent
\* names, the conversion of every reordering of its node list succeeds and
\* gives every name the same parent name, local, world and dirty flag.
C12_OrderIndependent ==
    (last.op = "try_from" /\ WellFormed(ftree)) =>
        /\ result.tag = "Ok"
        /\ \A other \in Reorderings(ftree) :
              LET r2 == TryFrom(other)
              IN  /\ r2.tag = "Ok"
                  /\ Len(r2.nodes) = Len(result.nodes)
                  /\ \A h \in Handles(result.nodes) :
                        \E g \in Handles(r2.nodes) :
                            /\ At(r2.nodes, g).name = At(result.nodes, h).name
                            /\ ParentName(r2.nodes, g) = ParentName(result.nodes, h)
                            /\ At(r2.nodes, g).local = At(result.nodes, h).local
                            /\ At(r2.nodes, g).world = At(result.nodes, h).world
                            /\ At(r2.nodes, g).dirty = At(result.nodes, h).dirty

\* C12 witness: a chain of three file nodes listed child first, each with
\* a transform of its own, has been converted.
C12_Witness ==
    /\ last.op = "try_from"
    /\ WellFormed(ftree)
    /\ Len(ftree) = 3
    /\ ftree[1].parent = ftree[2].name
    /\ ftree[2].parent = ftree[3].name
    /\ ftree[1].t = 1 /\ ftree[2].r = 1 /\ ftree[3].t = 1 /\ ftree[3].r = 1
    /\ result.tag = "Ok"

\* C13: in every store built by add_node, set_parent and update_world
\* calls that create no cycle, a node that is not dirty has
\* world = parent.world * local from the parent's cached world, or
\* world = local if it is a root.
C13_CleanWorldIsCached ==
    \A h \in Handles(nodes) :
        ~Node(h).dirty =>
            Node(h).world =
                IF Node(h).parent = None THEN Node(h).local
                ELSE Node(Node(h).parent).world \o Node(h).local

\* C18: in every store built by add_node, set_parent and update_world
\* calls that create no cycle, every transitive descendant of a dirty node
\* is dirty.
C18_DirtyClosedDownward ==
    \A h \in Handles(nodes) :
        Node(h).dirty => \A d \in Descendants(nodes, h) : Node(d).dirty

\* The positions of handle h in a trace of handles.
Positions(trace, h) == {k \in 1 .. Len(trace) : trace[k] = h}

VisitIds(visits) == [k \in 1 .. Len(visits) |-> visits[k].id]

\* C14: one update_world pass over an acyclic store visits every node
\* exactly once, and a node with a parent only after its parent, with the
\* carried transform equal to the parent's world after the parent's visit.
C14_VisitOrder ==
    [][(last'.op = "update_world" /\ Acyclic(nodes)) =>
          LET run == UpdateWorldTrace(nodes)
              v == run.visits
          IN  /\ run.done
              /\ run.nodes = nodes'
              /\ \A h \in Handles(nodes) :
                    Cardinality(Positions(VisitIds(v), h)) = 1
              /\ \A k \in 1 .. Len(v) :
                    LET p == At(nodes, v[k].id).parent
                    IN  p # None =>
                           \E j \in 1 .. (k - 1) :
                               v[j].id = p /\ v[k].carried = v[j].world
    ]_vars

\* C14 witness: update_world has returned on a chain of three nodes whose
\* middle node kept a world that differs from its parent's.
C14_Witness ==
    /\ last.op = "update_world"
    /\ Acyclic(nodes)
    /\ \E h \in Handles(nodes) :
          LET p == Node(h).parent
          IN  /\ p # None
              /\ Node(p).parent # None
              /\ Node(p).world # Node(Node(p).parent).world
              /\ Node(h).world # Node(p).world

\* C15: mark_dirty(h) terminates on every store, cycles and self-parents
\* included, and one call switches each node's flag at most once and
\* enqueues each node's children at most once.
C15_MarkDirtyTerminates ==
    [][last'.op = "mark_dirty" =>
          LET run == MarkDirtyTrace(nodes, last'.id)
          IN  /\ run.done
              /\ run.nodes = nodes'
              /\ \A h \in Handles(nodes) :
                    /\ Cardinality(Positions(run.marks, h)) <= 1
                    /\ Cardinality(Positions(run.expands, h)) <= 1
                    /\ Positions(run.marks, h) # {} => ~At(nodes, h).dirty
    ]_vars

\* C15 witness: mark_dirty has returned for a node on a parent cycle of two
\* nodes that has a third node below it.
C15_Witness ==
    /\ last.op = "mark_dirty"
    /\ Len(nodes) = 3
    /\ \E a, b, c \in Handles(nodes) :
          /\ a # b /\ c \notin {a, b}
          /\ Node(a).parent = b /\ Node(b).parent = a /\ Node(c).parent = a
          /\ last.id = a
    /\ \A h \in Handles(nodes) : Node(h).dirty

\* h lies on a parent cycle or below one.
Unrooted(ns, h) == ~ReachesRoot(ns, h, Len(ns))

\* C17: update_world terminates on every store, cycles and self-parents
\* included; it visits no node that lies on a cycle or below one, and those
\* nodes keep their dirty flag and world.
C17_UpdateWorldTerminates ==
    [][last'.op = "update_world" =>
          LET run == UpdateWorldTrace(nodes)
          IN  /\ run.done
              /\ run.nodes = nodes'
              /\ \A k \in 1 .. Len(run.visits) :
                    ~Unrooted(nodes, run.visits[k].id)
              /\ \A h \in Handles(nodes) :
                    Unrooted(nodes, h) =>
                        /\ At(nodes', h).dirty = At(nodes, h).dirty
                        /\ At(nodes', h).world = At(nodes, h).world
    ]_vars

\* C17 witness: update_world has returned on a store with a self-parented
\* node, a node below it and a root.
C17_Witness ==
    /\ last.op = "update_world"
    /\ \E a, b, c \in Handles(nodes) :
          /\ Node(a).parent = a
          /\ b # a /\ Node(b).parent = a
          /\ Node(c).parent = None
          /\ Node(a).dirty

\* C19: update_world changes only the world and dirty fields of nodes that
\* were dirty, and a second update_world right after it changes nothing.
C19_UpdateWorldFrame ==
    [][last'.op = "update_world" =>
          /\ Len(nodes') = Len(nodes)
          /\ \A h \in Handles(nodes) :
                /\ At(nodes', h).name = At(nodes, h).name
                /\ At(nodes', h).local = At(nodes, h).local
                /\ At(nodes', h).parent = At(nodes, h).parent
                /\ At(nodes', h).children = At(nodes, h).children
                /\ ~At(nodes, h).dirty => At(nodes', h) = At(nodes, h)
          /\ UpdateWorld(nodes') = nodes'
    ]_vars

\* C19 witness: update_world has returned leaving a clean node whose world
\* is not its parent's world composed with its local.
C19_Witness ==
    /\ last.op = "update_world"
    /\ \E h \in Handles(nodes) :
          /\ Node(h).parent # None
          /\ ~Node(h).dirty
          /\ ~Node(Node(h).parent).dirty
          /\ Node(h).world # Node(Node(h).parent).world \o Node(h).local

\* C16: for a file tree with unique names and resolvable parent names the
\* conversion yields a store with one node per file node: the i-th file
\* node (zero-based) has handle i and its name, its parent is the handle of
\* the file node its parent field names, and it is a root if it names none.
C16_ConversionStructure ==
    (last.op = "try_from" /\ UniqueNames(ftree) /\ Resolvable(ftree)) =>
        /\ result.tag = "Ok"
        /\ Len(result.nodes) = Len(ftree)
        /\ \A i \in 1 .. Len(ftree) :
              /\ At(result.nodes, i - 1).name = ftree[i].name
              /\ IF ftree[i].parent = NoName
                 THEN At(result.nodes, i - 1).parent = None
                 ELSE \E j \in 1 .. Len(ftree) :
                          /\ ftree[j].name = ftree[i].parent
                          /\ At(result.nodes, i - 1).parent = j - 1

\* C16 witness: three file nodes have been converted, the first naming the
\* last as its parent and the last naming the second.
C16_Witness ==
    /\ last.op = "try_from"
    /\ UniqueNames(ftree)
    /\ Len(ftree) = 3
    /\ ftree[1].parent = ftree[3].name
    /\ ftree[2].parent = NoName
    /\ ftree[3].parent = ftree[2].name
    /\ result.tag = "Ok"
    /\ At(result.nodes, 0).parent = 2

====
